---- MODULE Spec2Model ----
(***************************************************************************)
(* Customer segmentation pipeline: transaction cleaning, RFM features,     *)
(* the centroid (KMeans) and density (DBSCAN) trainers that persist the    *)
(* artifacts and the labeled dataset, and the Flask query service that     *)
(* lazily caches the dataset in a process-wide global.                     *)
(***************************************************************************)
EXTENDS Integers, Sequences, FiniteSets, TLC

VARIABLES
    raw,         \* data/raw/online_retail.csv: a table (sequence of rows) or NoFile
    cleaned,     \* result of clean_transactions(raw) in the data pipeline run
    rfmOut,      \* result of compute_rfm(cleaned) in the data pipeline run
    dpc,         \* position of the data pipeline run: "raw", "cleaned", "rfm"
    scalerFile,  \* models/scaler.joblib exists
    kmeansFile,  \* models/kmeans.joblib exists
    dbscanFile,  \* models/dbscan.joblib exists
    segmapFile,  \* models/segment_map.joblib exists
    rfmFile,     \* data/processed/rfm_with_segments.parquet: a dataset or NoFile
    rfmCache,    \* app.py global _rfm_df: a dataset or None
    pc,          \* per request thread: position inside get_rfm_df() / the handler
    resp,        \* the response most recently sent by the service
    rfmReads,    \* number of pd.read_parquet calls made by the current process
    lastOp       \* the exception that ended the latest training run, or NoError

vars == <<raw, cleaned, rfmOut, dpc, scalerFile, kmeansFile, dbscanFile,
          segmapFile, rfmFile, rfmCache, pc, resp, rfmReads, lastOp>>

dataVars == <<raw, cleaned, rfmOut, dpc>>
artifactVars == <<scalerFile, kmeansFile, dbscanFile, segmapFile>>
serviceVars == <<rfmCache, pc, resp, rfmReads>>

-----------------------------------------------------------------------------
(* Cell values.  A pandas cell is a value or NaN; a column may be absent.  *)

Some(x) == [k |-> "val", v |-> x]
NaN == [k |-> "nan", v |-> 0]
Absent == [k |-> "absent", v |-> 0]
IsNull(c) == c.k = "nan"

\* a csv file: missing, or a table of rows
NoCsv == [exists |-> FALSE, rows |-> <<>>]
Csv(rows) == [exists |-> TRUE, rows |-> rows]

\* a data frame; the missing parquet file and the Python None hold no frame
Frame(cols, rows) == [exists |-> TRUE, cols |-> cols, rows |-> rows]
NoFile == [exists |-> FALSE, cols |-> {}, rows |-> <<>>]
None == [exists |-> FALSE, cols |-> {}, rows |-> <<>>]

-----------------------------------------------------------------------------
(* Bounds of the model.                                                    *)

\* longest raw table enumerated for the data pipeline
MaxRows == 3
\* clock ticks per day: invoice timestamps carry a time of day
TicksPerDay == 2
\* largest n_clusters passed to the centroid trainer
MaxK == 2

-----------------------------------------------------------------------------
(* Raw transaction rows.                                                   *)

IntInv(n) == [k |-> "int", v |-> n]
StrInv(s) == [k |-> "str", v |-> s]

Row(c, q, p, i, d) ==
    [CustomerID |-> c, Quantity |-> q, UnitPrice |-> p, InvoiceNo |-> i, InvoiceDate |-> d]

GoodRows ==
    { Row(Some(c), 2, 3, x[1], x[2]) :
        c \in {1, 2},
        x \in { <<IntInv(7), <<0, 1>> >>, <<StrInv(<<"8">>), <<0, 1>> >>,
                <<IntInv(7), <<2, 0>> >> } }

EdgeRows ==
    { Row(NaN, 2, 3, IntInv(7), <<0, 0>>),
      Row(Some(1), 0, 3, IntInv(7), <<0, 0>>),
      Row(Some(1), 2, 0, IntInv(7), <<0, 0>>),
      Row(Some(1), 2, -1, IntInv(7), <<0, 0>>),
      Row(Some(1), 2, 3, StrInv(<<"C", "7">>), <<0, 0>>),
      Row(Some(1), 2, 3, StrInv(<<"c", "8">>), <<0, 0>>),
      Row(Some(1), 1, 5, IntInv(7), <<0, 0>>),
      Row(Some(2), -1, 3, StrInv(<<"C", "7">>), <<3, 1>>) }

Rows == GoodRows \cup EdgeRows

RECURSIVE TablesOfLen(_)
TablesOfLen(n) ==
    IF n = 0 THEN { <<>> }
    ELSE { Append(t, r) : t \in TablesOfLen(n - 1), r \in Rows }

Tables == UNION { TablesOfLen(n) : n \in 0..MaxRows }

-----------------------------------------------------------------------------
(* data.py                                                                 *)

Digit(n) == <<"0", "1", "2", "3", "4", "5", "6", "7", "8", "9">>[n + 1]

RECURSIVE IntToStr(_)
IntToStr(n) ==
    IF n < 0 THEN <<"-">> \o IntToStr(0 - n)
    ELSE IF n < 10 THEN <<Digit(n)>>
    ELSE IntToStr(n \div 10) \o <<Digit(n % 10)>>

\* Series.astype(str): a number becomes its decimal text, a string is kept
astype_str(inv) == IF inv.k = "int" THEN IntToStr(inv.v) ELSE inv.v

\* str.startswith("C")
startswithC(s) == Len(s) >= 1 /\ s[1] = "C"

\* pd.to_datetime: (day, tick of day) to ticks since the epoch
to_datetime(d) == d[1] * TicksPerDay + d[2]

HasCustomer(r) == ~IsNull(r.CustomerID)
\* slip: `>= 0` for `> 0`
KeepQuantityNonNegative(r) == r.Quantity >= 0
KeepQuantity(r) == r.Quantity > 0
KeepUnitPrice(r) == r.UnitPrice > 0
KeepInvoice(r) == ~startswithC(astype_str(r.InvoiceNo))

TotalPrice(r) == r.Quantity * r.UnitPrice

Derive(r) ==
    [CustomerID |-> r.CustomerID.v, Quantity |-> r.Quantity, UnitPrice |-> r.UnitPrice,
     InvoiceNo |-> r.InvoiceNo, InvoiceDate |-> to_datetime(r.InvoiceDate),
     TotalPrice |-> TotalPrice(r)]

clean_transactions(df) ==
    LET d1 == SelectSeq(df, HasCustomer)
        d2 == SelectSeq(d1, KeepQuantity)
        d3 == SelectSeq(d2, KeepUnitPrice)
        d4 == SelectSeq(d3, KeepInvoice)
    IN  [i \in 1..Len(d4) |-> Derive(d4[i])]

-----------------------------------------------------------------------------
(* preprocessing.py                                                        *)

SetMax(S) == CHOOSE x \in S : \A y \in S : y <= x
SetMin(S) == CHOOSE x \in S : \A y \in S : x <= y

RECURSIVE SortedSeq(_)
SortedSeq(S) ==
    IF S = {} THEN <<>> ELSE <<SetMin(S)>> \o SortedSeq(S \ {SetMin(S)})

RECURSIVE SeqSum(_)
SeqSum(s) == IF s = <<>> THEN 0 ELSE Head(s) + SeqSum(Tail(s))

Group(df, c) == SelectSeq(df, LAMBDA r : r.CustomerID = c)
Dates(df) == { df[i].InvoiceDate : i \in 1..Len(df) }

\* slip: the day is not added
snapshot_date_no_day(df) == SetMax(Dates(df))
snapshot_date(df) == SetMax(Dates(df)) + TicksPerDay

\* (snapshot_date - x.max()).days
Recency(df, g) == (snapshot_date(df) - SetMax(Dates(g))) \div TicksPerDay
\* nunique of InvoiceNo
Frequency(g) == Cardinality({ g[i].InvoiceNo : i \in 1..Len(g) })
\* sum of TotalPrice
Monetary(g) == SeqSum([i \in 1..Len(g) |-> g[i].TotalPrice])

RfmRow(df, c) ==
    [CustomerID |-> c, Recency |-> Recency(df, Group(df, c)),
     Frequency |-> Frequency(Group(df, c)), Monetary |-> Monetary(Group(df, c)),
     Cluster |-> Absent, Segment |-> Absent, DBSCAN_Cluster |-> Absent]

compute_rfm(df) ==
    LET keys == SortedSeq({ df[i].CustomerID : i \in 1..Len(df) })
    IN  [i \in 1..Len(keys) |-> RfmRow(df, keys[i])]

RfmCols == {"CustomerID", "Recency", "Frequency", "Monetary"}


-----------------------------------------------------------------------------
(* train_kmeans.py                                                         *)

DEFAULT_SEGMENT_MAP == <<"High Value", "Loyal", "At Risk", "Low Value">>

\* Series.map(DEFAULT_SEGMENT_MAP): a cluster id that is no key maps to NaN
MapSegment(c) ==
    IF c + 1 \in DOMAIN DEFAULT_SEGMENT_MAP THEN Some(DEFAULT_SEGMENT_MAP[c + 1]) ELSE NaN

\* load_clean = clean_transactions(load_raw(path))
load_clean(csv) == clean_transactions(csv.rows)

\* the raw files the operator supplies to the trainers
RawA == Csv(<< Row(Some(1), 2, 3, IntInv(7), <<0, 1>>) >>)
RawB == Csv(<< Row(Some(1), 2, 3, IntInv(7), <<0, 1>>),
               Row(Some(2), 1, 5, StrInv(<<"8">>), <<2, 0>>),
               Row(Some(2), -1, 5, StrInv(<<"C", "8">>), <<2, 1>>) >>)

RawInputs == {RawA, RawB}

\* compute_rfm(load_clean()) of each of them, computed once
RfmOfInput == [c \in RawInputs |-> compute_rfm(load_clean(c))]

\* the rows compute_rfm(load_clean()) yields; no frame when read_csv raises
FreshRfm(csv) ==
    IF ~csv.exists THEN <<>>
    ELSE IF csv \in RawInputs THEN RfmOfInput[csv]
    ELSE compute_rfm(load_clean(csv))

NoError == [run |-> "none", exc |-> "none"]
Raised(run, exc) == [run |-> run, exc |-> exc]

\* load_clean raises when the csv is missing; StandardScaler rejects an empty
\* frame; KMeans rejects fewer samples than clusters.  All before any dump.
KMeansError(csv, rfm, k) ==
    IF ~csv.exists THEN Raised("kmeans", "FileNotFoundError")
    ELSE IF Len(rfm) = 0 \/ Len(rfm) < k THEN Raised("kmeans", "ValueError")
    ELSE NoError

\* kmeans.fit_predict: a cluster index per row, no cluster left empty
KMeansLabelings(n, k) ==
    { l \in [1..n -> 0..(k - 1)] : \A c \in 0..(k - 1) : \E i \in 1..n : l[i] = c }

\* rfm["Cluster"] = fit_predict(...); rfm["Segment"] = rfm["Cluster"].map(...)
KMeansFrame(rfm, labels) ==
    Frame(RfmCols \cup {"Cluster", "Segment"},
          [i \in 1..Len(rfm) |->
              [rfm[i] EXCEPT !.Cluster = Some(labels[i]),
                             !.Segment = MapSegment(labels[i])]])

\* if save_rfm: rfm.to_parquet(...)
KMeansPersist(save_rfm, frame, old) == IF save_rfm THEN frame ELSE old

KMeansTrain ==
    LET rfm == FreshRfm(raw)
    IN  \E k \in 1..MaxK, save_rfm \in BOOLEAN :
            IF KMeansError(raw, rfm, k) # NoError
            THEN /\ UNCHANGED <<dataVars, artifactVars, rfmFile, serviceVars>>
                 /\ lastOp' = KMeansError(raw, rfm, k)
            ELSE \E labels \in KMeansLabelings(Len(rfm), k) :
                    /\ UNCHANGED <<dataVars, dbscanFile, serviceVars>>
                    /\ lastOp' = NoError
                    /\ scalerFile' = TRUE
                    /\ kmeansFile' = TRUE
                    /\ segmapFile' = TRUE
                    /\ rfmFile' = KMeansPersist(save_rfm, KMeansFrame(rfm, labels), rfmFile)

-----------------------------------------------------------------------------
(* train_dbscan.py                                                         *)

\* joblib.load(MODELS_DIR / SCALER_FILENAME) raises when the file is missing;
\* then load_clean raises when the csv is missing; scaler.transform rejects an
\* empty frame.  All before the dbscan artifact is dumped.
\* slip: the scaler is not loaded before the run writes
DbscanErrorScalerUnchecked(scaler, csv, rfm) ==
    IF ~csv.exists THEN Raised("dbscan", "FileNotFoundError")
    ELSE IF Len(rfm) = 0 THEN Raised("dbscan", "ValueError")
    ELSE NoError

DbscanError(scaler, csv, rfm) ==
    IF ~scaler THEN Raised("dbscan", "FileNotFoundError")
    ELSE IF ~csv.exists THEN Raised("dbscan", "FileNotFoundError")
    ELSE IF Len(rfm) = 0 THEN Raised("dbscan", "ValueError")
    ELSE NoError

\* rfm["DBSCAN_Cluster"] = dbscan.fit_predict(rfm_scaled)
DbscanFrame(rfm, labels) ==
    Frame(RfmCols \cup {"DBSCAN_Cluster"},
          [i \in 1..Len(rfm) |-> [rfm[i] EXCEPT !.DBSCAN_Cluster = Some(labels[i])]])

RECURSIVE Flatten(_)
Flatten(ss) == IF ss = <<>> THEN <<>> ELSE Head(ss) \o Flatten(Tail(ss))

\* the rows of the right frame that carry the key of a left row
Matches(right, key) == SelectSeq(right, LAMBDA r : r.CustomerID = key)

\* slip: how="inner", a left row without a match is dropped
JoinRowInner(l, ms) ==
    [j \in 1..Len(ms) |-> [l EXCEPT !.Cluster = ms[j].Cluster, !.Segment = ms[j].Segment]]

\* one left row joined to its matches: a row per match, or one row of NaN
JoinRow(l, ms) ==
    IF ms = <<>>
    THEN << [l EXCEPT !.Cluster = NaN, !.Segment = NaN] >>
    ELSE [j \in 1..Len(ms) |->
            [l EXCEPT !.Cluster = ms[j].Cluster, !.Segment = ms[j].Segment]]

\* rfm.merge(existing[["CustomerID", "Cluster", "Segment"]], on="CustomerID", how="left")
MergeLeft(left, existing) ==
    Frame(left.cols \cup {"Cluster", "Segment"},
          Flatten([i \in 1..Len(left.rows) |->
                      JoinRow(left.rows[i], Matches(existing.rows, left.rows[i].CustomerID))]))

\* if path.exists() and the existing frame has Segment and Cluster: merge
HasLabels(f) == "Segment" \in f.cols /\ "Cluster" \in f.cols

\* slip: a labeled dataset already on disk is left as it is
DbscanPersistKeepsOld(fresh, old) ==
    IF old.exists /\ HasLabels(old) THEN old ELSE fresh

DbscanPersist(fresh, old) ==
    IF old.exists /\ HasLabels(old) THEN MergeLeft(fresh, old) ELSE fresh

\* train_and_save(eps=0.5, min_samples=5), as the entry point calls it
min_samples == 5

\* dbscan.fit_predict: the noise sentinel -1 or a cluster id per row.  With
\* fewer rows than min_samples no row is a core point and every row is noise.
DbscanLabelings(n) ==
    IF n < min_samples THEN { [i \in 1..n |-> -1] }
    ELSE [1..n -> -1..(n - 1)]

DbscanTrain ==
    LET rfm == FreshRfm(raw)
    IN  IF DbscanError(scalerFile, raw, rfm) # NoError
        THEN /\ UNCHANGED <<dataVars, artifactVars, rfmFile, serviceVars>>
             /\ lastOp' = DbscanError(scalerFile, raw, rfm)
        ELSE \E labels \in DbscanLabelings(Len(rfm)) :
                /\ UNCHANGED <<dataVars, scalerFile, kmeansFile, segmapFile, serviceVars>>
                /\ lastOp' = NoError
                /\ dbscanFile' = TRUE
                /\ rfmFile' = DbscanPersist(DbscanFrame(rfm, labels), rfmFile)

-----------------------------------------------------------------------------
(* The operator puts a raw csv in place, or replaces it, between runs.     *)

ReplaceRaw ==
    /\ \E t \in RawInputs \ {raw} : raw' = t
    /\ UNCHANGED <<cleaned, rfmOut, dpc, artifactVars, rfmFile, serviceVars, lastOp>>

-----------------------------------------------------------------------------
(* app/app.py: the analytics handlers, as functions of the frame they use  *)

DigitChars == {"0", "1", "2", "3", "4", "5", "6", "7", "8", "9"}
DigitVal(ch) == CHOOSE n \in 0..9 : Digit(n) = ch

RECURSIVE DecimalVal(_)
DecimalVal(s) ==
    IF s = <<>> THEN 0 ELSE 10 * DecimalVal(SubSeq(s, 1, Len(s) - 1)) + DigitVal(s[Len(s)])

\* float(customer_id): decimal digits and "nan" parse, anything else raises ValueError
FloatRaises(s) ==
    ~ \/ s = <<"n", "a", "n">>
      \/ (Len(s) >= 1 /\ \A i \in 1..Len(s) : s[i] \in DigitChars)
FloatVal(s) == IF s = <<"n", "a", "n">> THEN NaN ELSE Some(DecimalVal(s))

Reply(status, body) == [status |-> status, body |-> body]
\* an exception escapes the handler: Flask answers 500 and keeps running
Unhandled(exc) == Reply(500, <<exc>>)
Unavailable == Reply(503, <<"No processed RFM data">>)

\* rows of a frame whose Segment is s (NaN segments belong to no group)
SegRows(df, s) == SelectSeq(df.rows, LAMBDA r : r.Segment = Some(s))
\* segment names in the order groupby / value_counts keys are compared here
SegmentOrder == <<"At Risk", "High Value", "Low Value", "Loyal">>
SegmentsOf(df) == SelectSeq(SegmentOrder, LAMBDA s : SegRows(df, s) # <<>>)

\* mean of a column over rows, rounded to 2 decimals (half to even), in hundredths
Round2(sum, n) ==
    LET q == (100 * sum) \div n
        r == (100 * sum) % n
    IN  IF 2 * r < n THEN q
        ELSE IF 2 * r > n THEN q + 1
        ELSE IF q % 2 = 0 THEN q ELSE q + 1

Mean2(rows, col) == Round2(SeqSum([i \in 1..Len(rows) |-> rows[i][col]]), Len(rows))

\* rfm["Segment"] raises KeyError when the frame has no Segment column
analytics_overview(df) ==
    IF "Segment" \notin df.cols THEN Unhandled("KeyError")
    ELSE Reply(200,
               [total_customers |-> Cardinality({ df.rows[i].CustomerID : i \in 1..Len(df.rows) }),
                segment_counts |-> [i \in 1..Len(SegmentsOf(df)) |->
                                       <<SegmentsOf(df)[i], Len(SegRows(df, SegmentsOf(df)[i]))>>]])

analytics_segments(df) ==
    IF "Segment" \notin df.cols THEN Unhandled("KeyError")
    ELSE Reply(200,
               [i \in 1..Len(SegmentsOf(df)) |->
                   LET g == SegRows(df, SegmentsOf(df)[i])
                   IN  [Segment |-> SegmentsOf(df)[i], count |-> Len(g),
                        mean_recency |-> Mean2(g, "Recency"),
                        mean_frequency |-> Mean2(g, "Frequency"),
                        mean_monetary |-> Mean2(g, "Monetary")]])

analytics_summary(df) ==
    IF "Segment" \notin df.cols THEN Unhandled("KeyError")
    ELSE Reply(200,
               [i \in 1..Len(SegmentsOf(df)) |->
                   LET g == SegRows(df, SegmentsOf(df)[i])
                   IN  [Segment |-> SegmentsOf(df)[i],
                        Recency |-> Mean2(g, "Recency"),
                        Frequency |-> Mean2(g, "Frequency"),
                        Monetary |-> Mean2(g, "Monetary")]])

\* rfm[rfm["CustomerID"] == cid]: NaN equals no id
CustomerRows(df, cid) ==
    IF IsNull(cid) THEN <<>> ELSE SelectSeq(df.rows, LAMBDA r : r.CustomerID = cid.v)

\* the row lookup and the response of analytics_customer: r["Segment"] and
\* r["Cluster"] raise KeyError without the column, int(NaN) raises ValueError
customer_row_response(df, cid) ==
    LET row == CustomerRows(df, cid)
    IN  IF row = <<>> THEN Reply(404, <<"not found">>)
        ELSE IF "Segment" \notin df.cols \/ "Cluster" \notin df.cols
             THEN Unhandled("KeyError")
        ELSE IF IsNull(row[1].Cluster) THEN Unhandled("ValueError")
        ELSE Reply(200,
                   [CustomerID |-> row[1].CustomerID, Segment |-> row[1].Segment,
                    Cluster |-> row[1].Cluster.v, Recency |-> row[1].Recency,
                    Frequency |-> row[1].Frequency, Monetary |-> row[1].Monetary,
                    DBSCAN_Cluster |-> IF "DBSCAN_Cluster" \in df.cols
                                       THEN row[1].DBSCAN_Cluster ELSE Absent])

\* slip: an id that does not parse is treated as an id nobody has
analytics_customer_no_validation(df, customer_id) ==
    IF FloatRaises(customer_id) THEN Reply(404, <<"not found">>)
    ELSE customer_row_response(df, FloatVal(customer_id))

\* the part of analytics_customer after the frame is known to be present
analytics_customer(df, customer_id) ==
    IF FloatRaises(customer_id) THEN Reply(400, <<"customer_id must be numeric">>)
    ELSE customer_row_response(df, FloatVal(customer_id))

\* what a handler answers once get_rfm_df() has returned rfm
Handle(r, rfm) ==
    IF ~rfm.exists THEN Unavailable
    ELSE IF r.ep = "overview" THEN analytics_overview(rfm)
    ELSE IF r.ep = "segments" THEN analytics_segments(rfm)
    ELSE IF r.ep = "summary" THEN analytics_summary(rfm)
    ELSE analytics_customer(rfm, r.arg)

-----------------------------------------------------------------------------
(* app/app.py: request threads running get_rfm_df() and the handler.       *)
(* Every analytics handler starts with `rfm = get_rfm_df()` and reads its  *)
(* route and path parameter only afterwards, so the request is drawn at    *)
(* the step that first uses it.  Each statement of get_rfm_df is one step. *)

Threads == {1, 2}

CustomerArgs == { <<"a", "b", "c">>, <<"2">> }
Requests ==
    { [ep |-> e, arg |-> <<>>] : e \in {"overview", "segments", "summary"} }
    \cup { [ep |-> "customer", arg |-> a] : a \in CustomerArgs }

\* the status line of a response; its body is Handle(r, rfm).body
Sent(r, reply) == [ep |-> r.ep, arg |-> r.arg, status |-> reply.status]
NoResp == [ep |-> "none", arg |-> <<>>, status |-> 0]

\* `if _rfm_df is None:`
CacheIsNone(cache) == ~cache.exists

\* a request arrives and its handler enters get_rfm_df()
Begin(t) ==
    /\ pc[t] = "idle"
    /\ pc' = [pc EXCEPT ![t] = IF CacheIsNone(rfmCache) THEN "exists" ELSE "ret"]
    /\ UNCHANGED <<dataVars, artifactVars, rfmFile, rfmCache, resp, rfmReads, lastOp>>

\* `if not path.exists(): return None`, and the handler answers 503
CheckPath(t) ==
    /\ pc[t] = "exists"
    /\ IF rfmFile.exists
       THEN /\ pc' = [pc EXCEPT ![t] = "read"]
            /\ UNCHANGED resp
       ELSE /\ \E r \in Requests : resp' = Sent(r, Handle(r, None))
            /\ pc' = [pc EXCEPT ![t] = "idle"]
    /\ UNCHANGED <<dataVars, artifactVars, rfmFile, rfmCache, rfmReads, lastOp>>

\* `_rfm_df = pd.read_parquet(path)`
ReadParquet(t) ==
    /\ pc[t] = "read"
    /\ rfmCache' = rfmFile
    /\ rfmReads' = rfmReads + 1
    /\ pc' = [pc EXCEPT ![t] = "ret"]
    /\ UNCHANGED <<dataVars, artifactVars, rfmFile, resp, lastOp>>

\* `return _rfm_df`, then the rest of the handler on the returned frame
Return(t) ==
    /\ pc[t] = "ret"
    /\ \E r \in Requests : resp' = Sent(r, Handle(r, rfmCache))
    /\ pc' = [pc EXCEPT ![t] = "idle"]
    /\ UNCHANGED <<dataVars, artifactVars, rfmFile, rfmCache, rfmReads, lastOp>>

\* the service process is stopped and started again: module globals are reset
Restart ==
    /\ rfmCache' = None
    /\ pc' = [t \in Threads |-> "idle"]
    /\ rfmReads' = 0
    /\ UNCHANGED <<dataVars, artifactVars, rfmFile, resp, lastOp>>

-----------------------------------------------------------------------------
(* Specifications                                                          *)

ServiceInit ==
    /\ scalerFile = FALSE /\ kmeansFile = FALSE /\ dbscanFile = FALSE /\ segmapFile = FALSE
    /\ rfmFile = NoFile
    /\ rfmCache = None
    /\ pc = [t \in Threads |-> "idle"]
    /\ resp = NoResp
    /\ rfmReads = 0
    /\ lastOp = NoError

Init ==
    /\ raw = NoCsv
    /\ cleaned = <<>>
    /\ rfmOut = <<>>
    /\ dpc = "off"
    /\ ServiceInit

Next ==
    \/ KMeansTrain
    \/ DbscanTrain
    \/ ReplaceRaw
    \/ Restart
    \/ \E t \in Threads : Begin(t)
    \/ \E t \in Threads : CheckPath(t)
    \/ \E t \in Threads : ReadParquet(t)
    \/ \E t \in Threads : Return(t)

Spec == Init /\ [][Next]_vars

\* The data pipeline on its own: load_raw, clean_transactions, compute_rfm.
DataInit ==
    /\ raw \in { Csv(t) : t \in Tables }
    /\ cleaned = <<>>
    /\ rfmOut = <<>>
    /\ dpc = "raw"
    /\ ServiceInit

Clean ==
    /\ dpc = "raw"
    /\ cleaned' = load_clean(raw)
    /\ dpc' = "cleaned"
    /\ UNCHANGED <<raw, rfmOut, artifactVars, rfmFile, serviceVars, lastOp>>

BuildRfm ==
    /\ dpc = "cleaned"
    /\ rfmOut' = compute_rfm(cleaned)
    /\ dpc' = "rfm"
    /\ UNCHANGED <<raw, cleaned, artifactVars, rfmFile, serviceVars, lastOp>>

DataNext == Clean \/ BuildRfm

DataSpec == DataInit /\ [][DataNext]_vars

-----------------------------------------------------------------------------
(* Properties of the data pipeline (checked under DataSpec)                *)

\* the rows the cleaning contract keeps
Kept(r) ==
    /\ r.CustomerID.k = "val"
    /\ r.Quantity > 0
    /\ r.UnitPrice > 0
    /\ ~(Len(astype_str(r.InvoiceNo)) > 0 /\ Head(astype_str(r.InvoiceNo)) = "C")

SameTransaction(out, in) ==
    /\ out.CustomerID = in.CustomerID.v
    /\ out.Quantity = in.Quantity
    /\ out.UnitPrice = in.UnitPrice
    /\ out.InvoiceNo = in.InvoiceNo

\* C7: clean_transactions returns exactly the rows with a customer id, a
\* quantity > 0, a unit price > 0 and an invoice id that, as a string, does
\* not start with "C": none of them is dropped, no other row is kept, and each
\* kept row has TotalPrice = Quantity * UnitPrice.
C7_CleanKeepsExactlyValidRows ==
    dpc \in {"cleaned", "rfm"} =>
        LET want == SelectSeq(raw.rows, Kept)
        IN  /\ Len(cleaned) = Len(want)
            /\ \A i \in 1..Len(cleaned) :
                  /\ SameTransaction(cleaned[i], want[i])
                  /\ cleaned[i].TotalPrice = cleaned[i].Quantity * cleaned[i].UnitPrice

\* a mixed batch: rows were dropped and rows were kept
C7_Witness ==
    /\ dpc = "cleaned"
    /\ Len(cleaned) >= 1
    /\ Len(cleaned) < Len(raw.rows)
    /\ \E i \in 1..Len(raw.rows) : Head(astype_str(raw.rows[i].InvoiceNo)) = "C"

LatestOf(df, c) ==
    CHOOSE d \in { df[i].InvoiceDate : i \in { j \in 1..Len(df) : df[j].CustomerID = c } } :
        \A i \in 1..Len(df) : df[i].CustomerID = c => df[i].InvoiceDate <= d
LatestOverall(df) ==
    CHOOSE d \in { df[i].InvoiceDate : i \in 1..Len(df) } :
        \A i \in 1..Len(df) : df[i].InvoiceDate <= d

\* C8: for a non-empty cleaned set every RFM row has Frequency >= 1,
\* Monetary >= 0 and Recency >= 0, Recency being the whole days from the
\* customer's latest invoice to the snapshot date, which is one day after the
\* latest invoice of the whole cleaned set.
C8_RfmRowsInRange ==
    (dpc = "rfm" /\ cleaned # <<>>) =>
        \A i \in 1..Len(rfmOut) :
            /\ rfmOut[i].Frequency >= 1
            /\ rfmOut[i].Monetary >= 0
            /\ rfmOut[i].Recency >= 0
            /\ rfmOut[i].Recency =
                  (LatestOverall(cleaned) + TicksPerDay
                      - LatestOf(cleaned, rfmOut[i].CustomerID)) \div TicksPerDay

\* two customers with different recency, one of them with two invoices
C8_Witness ==
    /\ dpc = "rfm"
    /\ Len(rfmOut) = 2
    /\ rfmOut[1].Recency # rfmOut[2].Recency
    /\ \E i \in 1..2 : rfmOut[i].Frequency = 2

-----------------------------------------------------------------------------
(* Properties of the trainers (checked under Spec)                         *)

Ids(rows) == { rows[i].CustomerID : i \in 1..Len(rows) }
HasDbscanColumn(f) == f.exists /\ "DBSCAN_Cluster" \in f.cols

\* what the left join promises: the customers of the fresh computation, each
\* once, with the labels of the prior dataset or with null labels
MergedFrom(prior, post, fresh) ==
    /\ post.exists
    /\ Ids(post.rows) = Ids(fresh)
    /\ \A c \in Ids(fresh) :
          Cardinality({ i \in 1..Len(post.rows) : post.rows[i].CustomerID = c }) = 1
    /\ \A i \in 1..Len(post.rows) :
          IF post.rows[i].CustomerID \in Ids(prior.rows)
          THEN \A j \in 1..Len(prior.rows) :
                  prior.rows[j].CustomerID = post.rows[i].CustomerID =>
                      /\ post.rows[i].Cluster = prior.rows[j].Cluster
                      /\ post.rows[i].Segment = prior.rows[j].Segment
          ELSE IsNull(post.rows[i].Cluster) /\ IsNull(post.rows[i].Segment)

\* C1: a density run that finds a persisted dataset with Cluster and Segment
\* persists every customer of the fresh RFM computation exactly once, with
\* the prior Cluster and Segment when the prior dataset has the customer and
\* with null Cluster and Segment otherwise; also when density runs repeat.
C1_DensityRunKeepsLabels ==
    [][ (DbscanTrain /\ lastOp' = NoError /\ rfmFile.exists /\ HasLabels(rfmFile))
            => MergedFrom(rfmFile, rfmFile', FreshRfm(raw)) ]_vars

\* a merged dataset with a customer kept from the prior dataset and a
\* customer only the fresh computation has
C1_Witness ==
    /\ HasDbscanColumn(rfmFile)
    /\ HasLabels(rfmFile)
    /\ \E i \in 1..Len(rfmFile.rows) : IsNull(rfmFile.rows[i].Cluster)
    /\ \E i \in 1..Len(rfmFile.rows) : rfmFile.rows[i].Cluster.k = "val"

\* C2: density training without the scaler artifact fails with an error and
\* leaves the persisted state as it was: no dbscan artifact, and the dataset
\* neither created nor modified.
C2_NoScalerNoWrite ==
    [][ (DbscanTrain /\ ~scalerFile)
            => /\ lastOp' = Raised("dbscan", "FileNotFoundError")
               /\ UNCHANGED <<scalerFile, kmeansFile, dbscanFile, segmapFile, rfmFile>> ]_vars

\* a density run over existing raw data has failed for want of the scaler
C2_Witness ==
    /\ raw.exists
    /\ ~scalerFile
    /\ lastOp = Raised("dbscan", "FileNotFoundError")
    /\ ~dbscanFile
    /\ ~rfmFile.exists

LabelsKept(prior, post) ==
    (prior.exists /\ HasLabels(prior)) =>
        \A i \in 1..Len(post.rows), j \in 1..Len(prior.rows) :
            prior.rows[j].CustomerID = post.rows[i].CustomerID =>
                /\ post.rows[i].Cluster = prior.rows[j].Cluster
                /\ post.rows[i].Segment = prior.rows[j].Segment

\* C9 as stated: once the dataset has the DBSCAN_Cluster column it has it in
\* every later state, whatever training runs follow, and a density run never
\* changes persisted Cluster/Segment values.
C9_ColumnStaysForever ==
    [][ /\ HasDbscanColumn(rfmFile) => HasDbscanColumn(rfmFile')
        /\ (DbscanTrain /\ lastOp' = NoError) => LabelsKept(rfmFile, rfmFile') ]_vars

\* C9 amended: every completed density run leaves the DBSCAN_Cluster column
\* in the dataset and keeps the persisted Cluster/Segment of the customers it
\* keeps; the column is lost only by a centroid run that saves the dataset.
C9_ColumnUntilCentroidSave ==
    [][ /\ (HasDbscanColumn(rfmFile) /\ ~HasDbscanColumn(rfmFile'))
            => (KMeansTrain /\ lastOp' = NoError /\ rfmFile' # rfmFile /\ HasLabels(rfmFile'))
        /\ (DbscanTrain /\ lastOp' = NoError)
            => (HasDbscanColumn(rfmFile') /\ LabelsKept(rfmFile, rfmFile')) ]_vars

\* the density model was trained, and a later centroid run has overwritten
\* the dataset
C9_Witness ==
    /\ dbscanFile
    /\ rfmFile.exists
    /\ HasLabels(rfmFile)
    /\ ~HasDbscanColumn(rfmFile)

-----------------------------------------------------------------------------
(* Properties of the query service (checked under Spec)                    *)

NonNumericCustomer(r) == r.ep = "customer" /\ FloatRaises(r.arg)

\* C3 as stated: a customer request with a non-numeric id is answered 400 in
\* every dataset state.
C3_NonNumericAlways400 ==
    NonNumericCustomer(resp) => resp.status = 400

\* C3 amended: a customer request with a non-numeric id is answered 400
\* whenever get_rfm_df() returns a dataset, and 503 when the dataset file is
\* absent and nothing is cached: availability is tested before the id.
C3_NonNumeric400OnceLoaded ==
    [][ \A t \in Threads :
          /\ (NonNumericCustomer(resp') /\ Return(t)) => resp'.status = 400
          /\ (NonNumericCustomer(resp') /\ pc'[t] = "idle" /\ CheckPath(t))
                => (resp'.status = 503 /\ ~rfmFile.exists /\ CacheIsNone(rfmCache)) ]_vars

\* 'abc' was answered 400 from a loaded dataset
C3_Witness ==
    /\ NonNumericCustomer(resp)
    /\ resp.status = 400
    /\ ~CacheIsNone(rfmCache)

Served == {200, 400, 404}

\* C4: with the dataset file absent and nothing loaded every read endpoint
\* answers 503 and caches nothing; the request after a 503, made once the
\* dataset has been persisted, is served normally.
C4_AbsenceThenServed ==
    [][ \A t \in Threads :
          /\ (CheckPath(t) /\ ~rfmFile.exists)
                => (resp'.status = 503 /\ CacheIsNone(rfmCache'))
          /\ (Return(t) /\ resp.status = 503) => resp'.status \in Served ]_vars

\* C5: once the dataset is loaded, every later query is answered from that
\* same copy, whatever is retrained, until the process is restarted.
C5_LoadedCopyUntilRestart ==
    [][ (~CacheIsNone(rfmCache) /\ ~Restart)
            => /\ rfmCache' = rfmCache
               /\ \A r \in Requests : Handle(r, rfmCache') = Handle(r, rfmCache) ]_vars

\* C6: within one process lifetime the dataset is read from storage at most
\* once, also when request handlers run concurrently.
C6_ReadAtMostOnce ==
    rfmReads <= 1

\* C10: every response of a read endpoint carries one of the statuses 200,
\* 400, 404, 503, in every dataset state the trainers can produce.
C10_NoUnhandledError ==
    resp.ep # "none" => resp.status \in {200, 400, 404, 503}

====
